---- MODULE Spec2Model ----
(***************************************************************************)
(* State-machine model of the streaming supervisor (PlayerState) of        *)
(* src/streamer_core.py: the control API, the PCM pump thread and the      *)
(* encoder watcher thread, together with the worker processes they spawn   *)
(* and kill.                                                               *)
(*                                                                         *)
(* Every public control call runs under the supervisor's RLock and is one  *)
(* atomic action.  The pump and the watcher are threads whose steps are    *)
(* the critical sections of their loops and the blocking calls they make   *)
(* between them (out.read, inn.write, proc.poll), so they interleave with  *)
(* control calls.  Pump threads have no identity in the program: they are  *)
(* kept as a bag of thread states.                                         *)
(*                                                                         *)
(* Time (time.monotonic()) is the integer variable now, in seconds.        *)
(* Indices are 0-based as in the source; playlist[i] of the source is      *)
(* playlist[i + 1] here.                                                   *)
(***************************************************************************)
EXTENDS Integers, Sequences, FiniteSets, Bags, TLC

\* ---------------------------------------------------------------- bounds
MaxLen == 2        \* longest playlist passed to load_playlist / set_playlist_order
MaxEnc == 2        \* encoder process objects alive or referenced at one time
MaxDec == 2        \* decoder process objects, and pump threads, alive at one time
MaxTime == 3       \* last value of the monotonic clock
MaxSeek == 3       \* largest argument passed to seek
MaxDur == 2        \* longest duration ffprobe reports
MaxDecWide == 3    \* the same, in the runs that restart the pipeline twice in one call
MaxEncWide == 3    \* encoder process objects in those runs
MaxCrashes == 5    \* encoder crashes in a row that the environment produces
MaxCrashesLive == 2   \* the same, in the runs checked for recovery
MaxChunks == 2     \* chunks of 4096 bytes left in the pipe of a decoder that has ended
MaxCallExits == 1  \* encoder exits that fall inside a call (between two of its polls)
MaxRequests == 4   \* requests the two clients send in the runs that model the lock

\* ------------------------------------------------------- values and inputs
None == 0                       \* a null process handle
Paths == {"a.mp3", "b.mp3"}
NoVideo == "None"               \* video_file = None
VideoArgs == {"v.mp4"}
DefaultRtmp == "rtmp://h/l/k"
RtmpArgs == {DefaultRtmp}
RtmpArgsBad == {"", DefaultRtmp}
\* ffmpeg_path decides what subprocess.Popen does: "ffmpeg" spawns,
\* "missing" raises FileNotFoundError, "noexec" raises PermissionError.
FfmpegArgsBad == {"ffmpeg", "missing"}
\* two usable values of each setting, and the empty RTMP URL
VideoArgsTwo == {"v.mp4", "w.mp4"}
OverlayArgsTwo == {"", "live"}
RtmpArgsTwo == {"", DefaultRtmp, "rtmp://h/l/k2"}
FfmpegArgsTwo == {"ffmpeg", "/usr/bin/ffmpeg"}
\* "noexec": a path that exists and cannot be executed (Popen raises
\* PermissionError, which is not FileNotFoundError)
FfmpegArgsAny == {"ffmpeg", "missing", "noexec"}
\* what running ffprobe on a file gives: ok = FALSE is a non-zero exit or an
\* output that float() rejects, otherwise val is the number printed.
ProbeVals == (-1)..MaxDur
ProbeOk == {[ok |-> TRUE, val |-> 2]}
ProbeOutputs == {[ok |-> FALSE, val |-> 0]} \cup {[ok |-> TRUE, val |-> v] : v \in ProbeVals}
SeekArgs == (-1)..MaxSeek
SeekArgsStart == {-1, 0}
\* every list of at most MaxLen paths
AllPlaylists == UNION {[1..n -> Paths] : n \in 0..MaxLen}
Track(i) == IF i % 2 = 1 THEN "a.mp3" ELSE "b.mp3"
\* the empty list and the list a, b, a, ... of MaxLen tracks
PlaylistArgs == {<<>>, [i \in 1..MaxLen |-> Track(i)]}
DefaultSettings ==
    [audio_bitrate |-> "320k", video_bitrate |-> "800k", maxrate |-> "800k",
     bufsize |-> "1600k", video_fps |-> 24]
NoFps == [given |-> FALSE, ok |-> FALSE, overflow |-> FALSE, val |-> 0]
EmptyCfg ==
    [audio_bitrate |-> "", video_bitrate |-> "", maxrate |-> "", bufsize |-> "",
     video_fps |-> NoFps]
\* the empty dict, the defaults sent back, a video_fps that is no number,
\* and a video_fps that is an infinite float (the JSON number 1e999)
CfgArgs ==
    {EmptyCfg,
     [audio_bitrate |-> "320k", video_bitrate |-> "800k", maxrate |-> "800k",
      bufsize |-> "1600k",
      video_fps |-> [given |-> TRUE, ok |-> TRUE, overflow |-> FALSE, val |-> 24]],
     [EmptyCfg EXCEPT !.video_fps =
         [given |-> TRUE, ok |-> FALSE, overflow |-> FALSE, val |-> 0]],
     [EmptyCfg EXCEPT !.video_fps =
         [given |-> TRUE, ok |-> FALSE, overflow |-> TRUE, val |-> 0]]}
\* a dict that sets one key, to a new value or back to the default
CfgArgsTwo ==
    {[EmptyCfg EXCEPT !.video_bitrate = "1200k"],
     [EmptyCfg EXCEPT !.video_bitrate = "800k"]}

\* threads that call the control operations (request handlers)
CallerIds == {"c1", "c2"}
NoThread == "none"              \* the lock is not held
FreeLock == [owner |-> NoThread, count |-> 0]
\* a caller thread outside any control call
IdleCall == [pc |-> "idle", op |-> "", seen |-> <<>>]

VARIABLES
    playlist,               \* self.playlist
    current_index,          \* self.current_index
    status,                 \* self.status
    position_sec,           \* self.position_sec
    last_start_monotonic,   \* self.last_start_monotonic
    video_file,             \* self.video_file
    overlay_text,           \* self.overlay_text
    rtmp_url,               \* self.rtmp_url
    ffmpeg_path,            \* self.ffmpeg_path
    encoder_proc,           \* self.encoder_proc: an encoder id or None
    audio_proc,             \* self.audio_proc: a decoder id or None
    _stop_audio_pump,       \* self._stop_audio_pump
    track_durations,        \* self.track_durations: function path -> seconds
    _consecutive_failures,  \* self._consecutive_failures
    _recent_seek_time,      \* self._recent_seek_time
    encoder_settings,       \* self.audio_bitrate, video_bitrate, maxrate, bufsize, video_fps
    encs,                   \* encoder processes ever spawned: id -> state
    decs,                   \* decoder processes ever spawned: id -> record
    pumps,                  \* the pump threads alive: a bag of thread states
    watcher,                \* the watcher thread: its position and locals
    now,                    \* time.monotonic()
    crash_count,            \* environment: the EncoderCrash events so far
    call_exits,             \* environment: the encoder exits inside a call so far
    lock,                   \* self.lock (threading.RLock): owner and depth
    calls,                  \* control calls in progress, one per caller thread
    _config_lock,           \* app.py _config_lock (threading.Lock): its owner
    requests                \* environment: the requests received so far

vars == <<playlist, current_index, status, position_sec, last_start_monotonic,
          video_file, overlay_text, rtmp_url, ffmpeg_path, encoder_proc,
          audio_proc, _stop_audio_pump, track_durations, _consecutive_failures,
          _recent_seek_time, encoder_settings, encs, decs, pumps, watcher, now,
          crash_count, call_exits, lock, calls, _config_lock, requests>>

\* ------------------------------------------------------------- processes
\* An encoder is "unborn", "run", "exit0" (exited with code 0), "exit1"
\* (exited with a non-zero code) or "killed" (terminated by the supervisor).
\* A decoder is a record: st in "unborn", "run", "exited", "killed"; while it
\* runs, the track it decodes and the -ss offset it was started with.  buf:
\* the process has ended and its stdout pipe holds at most buf chunks that no
\* pump has read (a running decoder keeps writing: its pipe is not tracked).
UnbornDec == [st |-> "unborn", track |-> "", start |-> 0, buf |-> 0]
DeadDec(st) == [st |-> st, track |-> "", start |-> 0, buf |-> MaxChunks]
\* A pump thread: pc in "top" (about to take the lock and read the handles),
\* "read" (in out.read), "write" (a chunk in hand, in inn.write), "eof" (read
\* returned b"", about to take the lock), "advance" (natural_end decided,
\* about to take the lock again); dec/enc are its local variables, as far
\* as the rest of the loop uses them.  A thread that has ended is in no bag.
TopPump == [pc |-> "top", dec |-> None, enc |-> None]
\* The watcher thread: pc in "read" (about to take the lock and read the
\* handle and the status), "poll" (about to call proc.poll()), "recover"
\* (poll returned ret, about to take the lock); proc/ret are its locals.
WatcherIdle == [pc |-> "read", proc |-> None, ret |-> ""]
\* thread th ends, or moves on to the state to
Ended(b, th) == b (-) SetToBag({th})
Moved(b, th, to) == (b (-) SetToBag({th})) (+) SetToBag({to})

Max(a, b) == IF a >= b THEN a ELSE b

\* the element of a set of one element
Only(S) == CHOOSE x \in S : TRUE

\* The supervisor's fields and the process tables as one record, so that the
\* helpers that the control calls share are functions from state to state.
\* exc: an exception is propagating (the rest of the call is skipped);
\* ovf: the call needed more processes than the bounds allow;
\* doom, code, fired: what the encoder does while the call runs (see PollEnc).
Cur ==
    [playlist |-> playlist, current_index |-> current_index, status |-> status,
     position_sec |-> position_sec, last_start_monotonic |-> last_start_monotonic,
     video_file |-> video_file, overlay_text |-> overlay_text,
     rtmp_url |-> rtmp_url, ffmpeg_path |-> ffmpeg_path,
     encoder_proc |-> encoder_proc, audio_proc |-> audio_proc,
     _stop_audio_pump |-> _stop_audio_pump, track_durations |-> track_durations,
     _consecutive_failures |-> _consecutive_failures,
     _recent_seek_time |-> _recent_seek_time,
     encoder_settings |-> encoder_settings,
     encs |-> encs, decs |-> decs, pumps |-> pumps, watcher |-> watcher,
     exc |-> FALSE, ovf |-> FALSE, doom |-> 0, code |-> "exit1", fired |-> FALSE]

\* Process ids name Popen objects.  An object whose process is dead and that
\* nothing refers to any more (no handle of the supervisor, no local variable
\* of a pump or of the watcher) is garbage: its id is free for a later Popen.
EncReferenced(s, e) ==
    \/ s.encoder_proc = e
    \/ s.watcher.proc = e
    \/ \E th \in BagToSet(s.pumps) : th.enc = e

DecReferenced(s, d) ==
    \/ s.audio_proc = d
    \/ \E th \in BagToSet(s.pumps) : th.dec = d

Collect(self) ==
    Only({
        [s EXCEPT
            !.encs = [e \in DOMAIN s.encs |->
                        IF s.encs[e] # "run" /\ ~EncReferenced(s, e)
                        THEN "unborn" ELSE s.encs[e]],
            !.decs = [d \in DOMAIN s.decs |->
                        IF s.decs[d].st # "run" /\ ~DecReferenced(s, d)
                        THEN UnbornDec ELSE s.decs[d]]]
        : s \in {self}})

\* the fields and the process tables take the values of record r
Assign(r) ==
    \E s \in {Collect(r)} :
    /\ ~r.ovf
    /\ playlist' = s.playlist
    /\ current_index' = s.current_index
    /\ status' = s.status
    /\ position_sec' = s.position_sec
    /\ last_start_monotonic' = s.last_start_monotonic
    /\ video_file' = s.video_file
    /\ overlay_text' = s.overlay_text
    /\ rtmp_url' = s.rtmp_url
    /\ ffmpeg_path' = s.ffmpeg_path
    /\ encoder_proc' = s.encoder_proc
    /\ audio_proc' = s.audio_proc
    /\ _stop_audio_pump' = s._stop_audio_pump
    /\ track_durations' = s.track_durations
    /\ _consecutive_failures' = s._consecutive_failures
    /\ _recent_seek_time' = s._recent_seek_time
    /\ encoder_settings' = s.encoder_settings
    /\ encs' = s.encs
    /\ decs' = s.decs
    /\ pumps' = s.pumps
    /\ watcher' = s.watcher
    /\ call_exits' = IF s.fired THEN call_exits + 1 ELSE call_exits

Commit(r) ==
    /\ Assign(r)
    /\ UNCHANGED <<now, crash_count, lock, calls, _config_lock, requests>>

\* proc.poll() is None, for a handle that may be None
EncAlive(s, e) == e # None /\ s.encs[e] = "run"
DecAlive(s, d) == d # None /\ s.decs[d].st = "run"

\* The encoder is a process of its own: it can exit while a call runs, also
\* right after its Popen.  A call sees that in self.encoder_proc.poll()
\* (309, 431, 552, 630): doom = n > 0 says that the n-th of the call's polls
\* that meet a running encoder finds that it has just exited, with code; doom
\* = 0, that the encoder lives through the call; fired, that the exit has
\* happened.  (An exit after the call's last poll is an exit after the call,
\* EncoderExits.)  The environment produces at most MaxCallExits such exits.
PollEnc(self) ==
    Only({
        IF s.exc \/ ~EncAlive(s, s.encoder_proc) \/ s.doom = 0 THEN s
        ELSE IF s.doom = 1
        THEN [s EXCEPT !.encs[s.encoder_proc] = s.code, !.doom = 0, !.fired = TRUE]
        ELSE [s EXCEPT !.doom = @ - 1]
        : s \in {self}})

\* the state a call finds, with every fate of the encoder in a call that
\* polls it up to k times
Doomed(k) ==
    {Cur} \cup
    IF call_exits < MaxCallExits
    THEN {[Cur EXCEPT !.doom = n, !.code = ret] :
             n \in 1..k, ret \in {"exit0", "exit1"}}
    ELSE {}

\* the states that a call leaves, one for each fate of the encoder: what is
\* left of a fate when the call returns is dropped
Outcomes(results) == {[r EXCEPT !.doom = 0, !.code = "exit1"] : r \in results}

\* the id of the next Popen object: the least free one (0 if there is none)
FreeEncs(s) == {e \in DOMAIN s.encs : s.encs[e] = "unborn"}
FreeDecs(s) == {d \in DOMAIN s.decs : s.decs[d].st = "unborn"}
NextEnc(s) == IF FreeEncs(s) = {} THEN None
              ELSE CHOOSE e \in FreeEncs(s) : \A f \in FreeEncs(s) : e <= f
NextDec(s) == IF FreeDecs(s) = {} THEN None
              ELSE CHOOSE d \in FreeDecs(s) : \A f \in FreeDecs(s) : d <= f

\* ------------------------------------------------------- internal helpers
\* The methods are functions from state to state.  Each binds the state it
\* is given once (s \in {self}), so that a state built by one helper is
\* computed once however often the next helper reads it.
_kill_encoder_unlocked(self) ==
    Only({
        IF s.exc THEN s
        ELSE [s EXCEPT !.encs = IF EncAlive(s, s.encoder_proc)
                                THEN [s.encs EXCEPT ![s.encoder_proc] = "killed"]
                                ELSE s.encs,
                       !.encoder_proc = None]
        : s \in {self}})

_kill_audio_unlocked(self) ==
    Only({
        IF s.exc THEN s
        ELSE [s EXCEPT !._stop_audio_pump = TRUE,
                       !.decs = IF DecAlive(s, s.audio_proc)
                                THEN [s.decs EXCEPT ![s.audio_proc] = DeadDec("killed")]
                                ELSE s.decs,
                       !.audio_proc = None]
        : s \in {self}})

_kill_ffmpeg_unlocked(self) ==
    Only({_kill_encoder_unlocked(_kill_audio_unlocked(s)) : s \in {self}})

\* subprocess.Popen(cmd, ...) of the encoder command line
SpawnEncoder(self) ==
    Only({
        IF s.ffmpeg_path = "missing"
        THEN [s EXCEPT !.encoder_proc = None, !.status = "stopped"]
        ELSE IF s.ffmpeg_path = "noexec"
        THEN [s EXCEPT !.exc = TRUE]
        ELSE IF NextEnc(s) = None
        THEN [s EXCEPT !.ovf = TRUE, !.exc = TRUE]
        ELSE [s EXCEPT !.encs = [s.encs EXCEPT ![NextEnc(s)] = "run"],
                       !.encoder_proc = NextEnc(s),
                       !._consecutive_failures = 0]
        : s \in {self}})

_start_encoder_unlocked(self) ==
    Only({
        IF s.exc THEN s
        ELSE LET p == PollEnc(s) IN
             IF EncAlive(p, p.encoder_proc) THEN p
             ELSE LET k == _kill_encoder_unlocked(p) IN
                  IF k.video_file = NoVideo THEN k
                  ELSE IF k.rtmp_url = "" THEN k
                  ELSE SpawnEncoder(k)
        : s \in {self}})

\* subprocess.Popen(cmd, ...) of the decoder command line, and the pump thread
SpawnAudio(self, start_sec) ==
    Only({
        IF s.ffmpeg_path = "missing"
        THEN [s EXCEPT !.audio_proc = None, !.status = "stopped"]
        ELSE IF s.ffmpeg_path = "noexec"
        THEN [s EXCEPT !.exc = TRUE]
        ELSE IF NextDec(s) = None \/ BagCardinality(s.pumps) >= Cardinality(DOMAIN s.decs)
        THEN [s EXCEPT !.ovf = TRUE, !.exc = TRUE]
        ELSE [s EXCEPT !.decs = [s.decs EXCEPT ![NextDec(s)] =
                                    [st |-> "run",
                                     track |-> s.playlist[s.current_index + 1],
                                     start |-> Max(0, start_sec),
                                     buf |-> 0]],
                       !.audio_proc = NextDec(s),
                       !._stop_audio_pump = FALSE,
                       !.pumps = s.pumps (+) SetToBag({TopPump})]
        : s \in {self}})

NormIndex(self) ==
    Only({
        IF s.current_index < 0 \/ s.current_index >= Len(s.playlist)
        THEN [s EXCEPT !.current_index = 0]
        ELSE s
        : s \in {self}})

_start_audio_unlocked(self, start_sec) ==
    Only({
        IF s.exc THEN s
        ELSE IF s.playlist = <<>> THEN s
        ELSE LET n == PollEnc(NormIndex(s)) IN
             IF ~EncAlive(n, n.encoder_proc) THEN n
             ELSE SpawnAudio(_kill_audio_unlocked(n), start_sec)
        : s \in {self}})

TimingAndPlaying(self, start_sec, t) ==
    Only({
        IF s.exc THEN s
        ELSE [s EXCEPT !.last_start_monotonic = t,
                       !.position_sec = Max(0, start_sec),
                       !.status = "playing"]
        : s \in {self}})

_start_pipeline_unlocked(self, start_sec, t) ==
    Only({
        IF s.exc THEN s
        ELSE IF s.playlist = <<>> THEN [s EXCEPT !.status = "stopped"]
        ELSE IF s.video_file = NoVideo THEN [s EXCEPT !.status = "stopped"]
        ELSE LET e == PollEnc(_start_encoder_unlocked(s)) IN
             IF e.exc THEN e
             ELSE IF ~EncAlive(e, e.encoder_proc) THEN [e EXCEPT !.status = "error"]
             ELSE TimingAndPlaying(_start_audio_unlocked(e, start_sec), start_sec, t)
        : s \in {self}})

_restart_full_pipeline_unlocked(self, start_sec, t) ==
    Only({_start_pipeline_unlocked(_kill_ffmpeg_unlocked(s), start_sec, t) : s \in {self}})

_start_ffmpeg_unlocked(self, start_sec, t) ==
    Only({_start_pipeline_unlocked(s, start_sec, t) : s \in {self}})

_get_position_unlocked(s, t) ==
    IF s.status = "playing"
    THEN s.position_sec + (t - s.last_start_monotonic)
    ELSE s.position_sec

\* ---------------------------------------------------- ffprobe durations
\* _probe_duration: [some |-> FALSE] is None
_probe_duration(out) ==
    IF ~out.ok THEN [some |-> FALSE, dur |-> 0]
    ELSE IF out.val < 0 THEN [some |-> FALSE, dur |-> 0]
    ELSE [some |-> TRUE, dur |-> out.val]

MapPut(m, k, v) == [x \in DOMAIN m \cup {k} |-> IF x = k THEN v ELSE m[x]]

\* the loop of _update_durations_for_playlist_unlocked from position i on;
\* outs[i] is what ffprobe gives if playlist[i] is probed
RECURSIVE DurationsLoop(_, _, _, _, _)
DurationsLoop(pl, old, outs, i, new_map) ==
    IF i > Len(pl) THEN new_map
    ELSE LET spath == pl[i]
             dur == _probe_duration(outs[i])
         IN DurationsLoop(pl, old, outs, i + 1,
                IF spath \in DOMAIN old THEN MapPut(new_map, spath, old[spath])
                ELSE IF dur.some THEN MapPut(new_map, spath, dur.dur)
                ELSE new_map)

\* A variant that keeps the entries of paths no longer in the playlist
\* (claim C36).
_update_durations_keeps_removed(s, outs) ==
    [s EXCEPT !.track_durations =
        DurationsLoop(s.playlist, s.track_durations, outs, 1, s.track_durations)]

_update_durations_for_playlist_unlocked(s, outs) ==
    [s EXCEPT !.track_durations =
        DurationsLoop(s.playlist, s.track_durations, outs, 1, <<>>)]

\* -------------------------------------------------------- track advance
\* A variant that stays on the last track instead of wrapping (claim C5).
NextIndex_clamped(s) ==
    IF s.current_index = Len(s.playlist) - 1 THEN s.current_index
    ELSE s.current_index + 1

NextIndex(s) ==
    IF s.current_index = Len(s.playlist) - 1 THEN 0 ELSE s.current_index + 1

\* lines 619-638: move to the next index and switch the decoder
AdvanceTo(self, t) ==
    Only({
        LET a == [n EXCEPT !.current_index = NextIndex(n), !.position_sec = 0]
            e == PollEnc(_start_encoder_unlocked(a))
            d == _start_audio_unlocked(e, 0)
        IN IF e.exc THEN e
           ELSE IF EncAlive(e, e.encoder_proc)
           THEN IF d.exc THEN d
                ELSE [d EXCEPT !.last_start_monotonic = t, !.status = "playing"]
           ELSE [e EXCEPT !.status = "stopped", !.position_sec = 0]
        : n \in {self}})

\* A variant that ignores loop_queue and always wraps (claim C8).
_advance_track_always_loops(self, loop_queue, t) ==
    Only({
        IF s.exc THEN s
        ELSE IF s.playlist = <<>> THEN [s EXCEPT !.status = "stopped"]
        ELSE AdvanceTo(NormIndex(s), t)
        : s \in {self}})

_advance_track_unlocked(self, loop_queue, t) ==
    Only({
        IF s.exc THEN s
        ELSE IF s.playlist = <<>> THEN [s EXCEPT !.status = "stopped"]
        ELSE LET n == NormIndex(s) IN
             IF n.current_index = Len(n.playlist) - 1 /\ ~loop_queue
             THEN [_kill_audio_unlocked(n) EXCEPT !.status = "stopped",
                                                  !.position_sec = 0]
             ELSE AdvanceTo(n, t)
        : s \in {self}})

\* ------------------------------------------------------------ public API
\* A variant that does not reset current_index (claim C9).
load_playlist_keeps_index(s, paths, outs) ==
    _update_durations_for_playlist_unlocked(
        [s EXCEPT !.playlist = paths, !.position_sec = 0],
        outs)

\* A variant that also stops playback (claim C16).
load_playlist_stops(s, paths, outs) ==
    _update_durations_for_playlist_unlocked(
        [_kill_ffmpeg_unlocked(s) EXCEPT !.playlist = paths, !.current_index = 0,
                                         !.position_sec = 0, !.status = "stopped"],
        outs)

load_playlist(s, paths, outs) ==
    _update_durations_for_playlist_unlocked(
        [s EXCEPT !.playlist = paths, !.current_index = 0, !.position_sec = 0],
        outs)

\* A variant that always resets the index (claim C17).
FirstIndexOf_zero(pl, path) == 0

\* index of the first entry of pl equal to path, 0 if there is none
FirstIndexOf(pl, path) ==
    IF \E i \in 1..Len(pl) : pl[i] = path
    THEN (CHOOSE i \in 1..Len(pl) :
            pl[i] = path /\ \A j \in 1..(i - 1) : pl[j] # path) - 1
    ELSE 0

set_playlist_order(s, paths, outs) ==
    IF s.playlist # <<>> /\ s.current_index >= Len(s.playlist)
    THEN [s EXCEPT !.exc = TRUE]     \* IndexError
    ELSE _update_durations_for_playlist_unlocked(
            [s EXCEPT !.playlist = paths,
                      !.current_index =
                          IF s.playlist = <<>> THEN 0
                          ELSE FirstIndexOf(paths, s.playlist[s.current_index + 1]),
                      !.position_sec = 0],
            outs)

\* A variant that restarts from the start of the track (claim C18).
RestartIfPlaying_from_zero(s, t) ==
    IF s.status = "playing"
    THEN _restart_full_pipeline_unlocked(s, 0, t)
    ELSE s

RestartIfPlaying(s, t) ==
    IF s.status = "playing"
    THEN _restart_full_pipeline_unlocked(s, _get_position_unlocked(s, t), t)
    ELSE s

set_video(s, path, t) == RestartIfPlaying([s EXCEPT !.video_file = path], t)

set_overlay_text(s, text, t) == RestartIfPlaying([s EXCEPT !.overlay_text = text], t)

set_rtmp(s, url, t) ==
    LET r == RestartIfPlaying([s EXCEPT !.rtmp_url = url], t) IN
    IF ~r.exc /\ r.status = "playing"
    THEN _start_ffmpeg_unlocked(r, _get_position_unlocked(r, t), t)
    ELSE r

set_ffmpeg_path(s, path, t) == RestartIfPlaying([s EXCEPT !.ffmpeg_path = path], t)

\* A variant that starts the pipeline in every status (claim C11).
play_restarts(s, t) == _start_pipeline_unlocked(s, s.position_sec, t)

play(s, t) ==
    IF s.status \in {"stopped", "paused", "error"}
    THEN _start_pipeline_unlocked(s, s.position_sec, t)
    ELSE s

\* A variant that does not validate the index (claim C24).
play_index_unchecked(s, index, t) ==
    _start_pipeline_unlocked(
        [s EXCEPT !.current_index = index, !.position_sec = 0], 0, t)

play_index(s, index, t) ==
    IF s.playlist = <<>> THEN s
    ELSE IF index < 0 \/ index >= Len(s.playlist) THEN s
    ELSE _start_pipeline_unlocked(
            [s EXCEPT !.current_index = index, !.position_sec = 0], 0, t)

\* A variant that does not store the live position (claim C12).
pause_keeps_anchor(s, t) == [_kill_ffmpeg_unlocked(s) EXCEPT !.status = "paused"]

pause(s, t) ==
    [_kill_ffmpeg_unlocked([s EXCEPT !.position_sec = _get_position_unlocked(s, t)])
        EXCEPT !.status = "paused"]

\* A variant that leaves the encoder running (claim C15).
stop_keeps_encoder(s) ==
    [_kill_audio_unlocked(s) EXCEPT !.status = "stopped", !.position_sec = 0]

stop(s) ==
    [_kill_ffmpeg_unlocked(s) EXCEPT !.status = "stopped", !.position_sec = 0]

skip_next(s, t) == _advance_track_unlocked(s, TRUE, t)

\* the duration seek() clamps to: [some |-> FALSE] is None
SeekDuration(s) ==
    IF /\ s.playlist # <<>>
       /\ 0 <= s.current_index /\ s.current_index < Len(s.playlist)
       /\ s.playlist[s.current_index + 1] \in DOMAIN s.track_durations
       /\ s.track_durations[s.playlist[s.current_index + 1]] > 0
    THEN [some |-> TRUE, dur |-> s.track_durations[s.playlist[s.current_index + 1]]]
    ELSE [some |-> FALSE, dur |-> 0]

\* Variants of the clamp: no upper clamp at all (claim C6), and a clamp to
\* the duration itself instead of one second before it (claim C7).
SeekClamp_none(s, seconds) == IF seconds < 0 THEN 0 ELSE seconds

SeekClamp_to_duration(s, seconds) ==
    LET nonneg == IF seconds < 0 THEN 0 ELSE seconds
        duration == SeekDuration(s)
    IN IF duration.some /\ nonneg >= duration.dur
       THEN duration.dur
       ELSE nonneg

SeekClamp(s, seconds) ==
    LET nonneg == IF seconds < 0 THEN 0 ELSE seconds
        duration == SeekDuration(s)
    IN IF duration.some /\ nonneg >= duration.dur
       THEN Max(duration.dur - 1, 0)
       ELSE nonneg

seek(s, seconds, t) ==
    LET m == [s EXCEPT !.position_sec = SeekClamp(s, seconds),
                       !._recent_seek_time = t]
    IN IF m.status = "playing"
       THEN _start_pipeline_unlocked(m, SeekClamp(s, seconds), t)
       ELSE m

\* A cfg is a record of the five keys: a string setting is "" when the key
\* is absent (or its value is falsy); video_fps is absent, or a value that
\* int() accepts (ok), or one it rejects with TypeError or ValueError, which
\* the operation swallows, or an infinite float, for which int() raises
\* OverflowError: the operation raises with the four strings already set.
set_encoder_settings(s, cfg) ==
    LET m == [s EXCEPT !.encoder_settings =
                [audio_bitrate |-> IF cfg.audio_bitrate # "" THEN cfg.audio_bitrate ELSE @.audio_bitrate,
                 video_bitrate |-> IF cfg.video_bitrate # "" THEN cfg.video_bitrate ELSE @.video_bitrate,
                 maxrate |-> IF cfg.maxrate # "" THEN cfg.maxrate ELSE @.maxrate,
                 bufsize |-> IF cfg.bufsize # "" THEN cfg.bufsize ELSE @.bufsize,
                 video_fps |-> IF cfg.video_fps.given /\ cfg.video_fps.ok
                               THEN cfg.video_fps.val ELSE @.video_fps]]
    IN IF cfg.video_fps.given /\ cfg.video_fps.overflow
       THEN [m EXCEPT !.exc = TRUE]     \* OverflowError
       ELSE m

\* self.stop_flag: nothing in the program ever sets it
stop_flag == FALSE

\* ----------------------------------------------------------------- Init
\* the fields that __init__ sets
InitFields ==
    /\ playlist = <<>>
    /\ current_index = 0
    /\ status = "stopped"
    /\ position_sec = 0
    /\ last_start_monotonic = 0
    /\ video_file = NoVideo
    /\ overlay_text = ""
    /\ rtmp_url = DefaultRtmp
    /\ ffmpeg_path = "ffmpeg"
    /\ encoder_proc = None
    /\ audio_proc = None
    /\ _stop_audio_pump = FALSE
    /\ track_durations = <<>>
    /\ _consecutive_failures = 0
    /\ encoder_settings = DefaultSettings
    /\ _recent_seek_time = 0
    /\ watcher = WatcherIdle
    /\ now = 1
    /\ crash_count = 0
    /\ call_exits = 0
    /\ lock = FreeLock
    /\ calls = [c \in CallerIds |-> IdleCall]
    /\ _config_lock = NoThread
    /\ requests = 0

\* no process has been spawned and no pump thread started
Init ==
    /\ InitFields
    /\ encs = [e \in 1..MaxEnc |-> "unborn"]
    /\ decs = [d \in 1..MaxDec |-> UnbornDec]
    /\ pumps = EmptyBag

\* the same state, with room for MaxEncWide encoder objects and for
\* MaxDecWide decoder objects and pump threads
InitWide ==
    /\ InitFields
    /\ encs = [e \in 1..MaxEncWide |-> "unborn"]
    /\ decs = [d \in 1..MaxDecWide |-> UnbornDec]
    /\ pumps = EmptyBag

\* the same state, with room for the encoder that a recovery of the watcher
\* spawns while an earlier encoder, which no handle refers to, still runs
InitRecover ==
    /\ InitFields
    /\ encs = [e \in 1..MaxEncWide |-> "unborn"]
    /\ decs = [d \in 1..MaxDec |-> UnbornDec]
    /\ pumps = EmptyBag

\* the same state, with room for every process that MaxRequests requests (two
\* decoders for one set_rtmp) and the watcher's recoveries (one for each
\* encoder exit) spawn
InitLock ==
    /\ InitFields
    /\ encs = [e \in 1..(2 * MaxRequests + MaxCallExits) |-> "unborn"]
    /\ decs = [d \in 1..(2 * MaxRequests + MaxCallExits) |-> UnbornDec]
    /\ pumps = EmptyBag

\* ------------------------------------------------- control calls (atomic)
\* A call that raises leaves the mutations made before the exception.
Control(s) == Commit(s)

\* A call that starts the pipeline polls the encoder at 309, 552 and 431, an
\* advance at 309, 630 and 431, a restart (which kills first) at 552 and 431,
\* set_rtmp in its restart and in the start that follows it.

\* The arguments of a call are drawn from the set the action is given.
LoadPlaylistOf(lists, probes) ==
    \E paths \in lists : \E outs \in [1..Len(paths) -> probes] :
        Control(load_playlist(Cur, paths, outs))

SetPlaylistOrderOf(lists, probes) ==
    \E paths \in lists : \E outs \in [1..Len(paths) -> probes] :
        Control(set_playlist_order(Cur, paths, outs))

SetRtmpOf(urls) ==
    \E url \in urls :
        \E r \in Outcomes({set_rtmp(s, url, now) : s \in Doomed(5)}) : Control(r)

SetFfmpegPathOf(paths) ==
    \E path \in paths :
        \E r \in Outcomes({set_ffmpeg_path(s, path, now) : s \in Doomed(2)}) : Control(r)

SeekOf(args) ==
    \E seconds \in args :
        \E r \in Outcomes({seek(s, seconds, now) : s \in Doomed(3)}) : Control(r)

LoadPlaylist == LoadPlaylistOf(PlaylistArgs, ProbeOk)

SetVideoOf(paths) ==
    \E path \in paths :
        \E r \in Outcomes({set_video(s, path, now) : s \in Doomed(2)}) : Control(r)

SetOverlayTextOf(texts) ==
    \E text \in texts :
        \E r \in Outcomes({set_overlay_text(s, text, now) : s \in Doomed(2)}) : Control(r)

SetVideo == SetVideoOf(VideoArgs)

SetRtmp == SetRtmpOf(RtmpArgs)

SetEncoderSettingsOf(cfgs) == \E cfg \in cfgs : Control(set_encoder_settings(Cur, cfg))

SetEncoderSettings == SetEncoderSettingsOf(CfgArgs)

Play == \E r \in Outcomes({play(s, now) : s \in Doomed(3)}) : Control(r)

PlayIndex ==
    \E index \in (-1)..MaxLen :
        \E r \in Outcomes({play_index(s, index, now) : s \in Doomed(3)}) : Control(r)

Pause == Control(pause(Cur, now))

Stop == Control(stop(Cur))

SkipNext == \E r \in Outcomes({skip_next(s, now) : s \in Doomed(3)}) : Control(r)

Seek == SeekOf(SeekArgsStart)

SeekAny == SeekOf(SeekArgs)

LoadAnyOk == LoadPlaylistOf(AllPlaylists, ProbeOk)

SetPlaylistOrderAny == SetPlaylistOrderOf(AllPlaylists, ProbeOk)

LoadShort == LoadPlaylistOf({<<>>, <<"a.mp3">>}, ProbeOk)

SetVideoTwo == SetVideoOf(VideoArgsTwo)

SetOverlayTextTwo == SetOverlayTextOf(OverlayArgsTwo)

SetRtmpTwo == SetRtmpOf(RtmpArgsTwo)

SetFfmpegPathTwo == SetFfmpegPathOf(FfmpegArgsTwo)

SetEncoderSettingsTwo == SetEncoderSettingsOf(CfgArgsTwo)

LoadAnyProbed == LoadPlaylistOf(AllPlaylists, ProbeOutputs)

LoadFull == LoadPlaylistOf({[i \in 1..MaxLen |-> Track(i)]}, ProbeOk)

SetPlaylistOrderAnyProbed == SetPlaylistOrderOf(AllPlaylists, ProbeOutputs)

\* _advance_track_unlocked called directly, with either value of loop_queue
\* (the pump always passes True)
AdvanceTrack ==
    \E loop_queue \in BOOLEAN :
        \E r \in Outcomes({_advance_track_unlocked(s, loop_queue, now) : s \in Doomed(3)}) :
            Control(r)

\* ------------------------------------------------------- the pump thread
\* while True: with self.lock: dec, enc, stop_flag = ...
\* if stop_flag or dec is None or enc is None: break
PumpTopStep(self, th) ==
    Only({
        [s EXCEPT !.pumps =
            IF s._stop_audio_pump \/ s.audio_proc = None \/ s.encoder_proc = None
            THEN Ended(@, th)
            ELSE Moved(@, th, [pc |-> "read", dec |-> s.audio_proc,
                               enc |-> s.encoder_proc])]
        : s \in {self}})

PumpTop(th) ==
    /\ th.pc = "top"
    /\ Commit(PumpTopStep(Cur, th))

\* what out.read(4096) can return: a running decoder delivers a chunk; the
\* pipe of one that has ended gives what was left in it, chunk by chunk, and
\* then b""
ReadResults(s, th) ==
    IF s.decs[th.dec].st = "run" THEN {TRUE}
    ELSE IF s.decs[th.dec].buf > 0 THEN {TRUE, FALSE}
    ELSE {FALSE}

\* chunk = out.read(4096)  (outside the lock); chunk: the read returned data
PumpReadStep(self, th, chunk) ==
    Only({
        IF chunk
        THEN [s EXCEPT !.pumps = Moved(@, th, [pc |-> "write", dec |-> None,
                                               enc |-> th.enc]),
                       !.decs[th.dec].buf = Max(0, @ - 1)]
        ELSE [s EXCEPT !.pumps = Moved(@, th, [pc |-> "eof", dec |-> th.dec,
                                               enc |-> None]),
                       !.decs[th.dec].buf = 0]
        : s \in {self}})

PumpRead(th) ==
    /\ th.pc = "read"
    /\ \E chunk \in ReadResults(Cur, th) : Commit(PumpReadStep(Cur, th, chunk))

\* inn.write(chunk); inn.flush()  (outside the lock): BrokenPipeError ends
\* the thread when the encoder it writes to is dead
PumpWriteStep(self, th) ==
    Only({
        [s EXCEPT !.pumps =
            IF s.encs[th.enc] = "run" THEN Moved(@, th, TopPump)
            ELSE Ended(@, th)]
        : s \in {self}})

PumpWrite(th) ==
    /\ th.pc = "write"
    /\ Commit(PumpWriteStep(Cur, th))

RecentSeek(s, t) == s._recent_seek_time # 0 /\ t - s._recent_seek_time < 2

\* A variant without the test of the recent seek (claim C4).
NaturalEnd_no_seek_guard(s, t) ==
    /\ ~s._stop_audio_pump
    /\ s.status = "playing"
    /\ s.playlist # <<>>

NaturalEnd(s, t) ==
    /\ ~s._stop_audio_pump
    /\ s.status = "playing"
    /\ s.playlist # <<>>
    /\ ~RecentSeek(s, t)

\* if not chunk: with self.lock: natural_end = ...
PumpEofStep(self, th, t) ==
    Only({
        [s EXCEPT !.pumps =
            IF NaturalEnd(s, t)
            THEN Moved(@, th, [pc |-> "advance", dec |-> th.dec, enc |-> None])
            ELSE Ended(@, th)]
        : s \in {self}})

PumpEof(th) ==
    /\ th.pc = "eof"
    /\ Commit(PumpEofStep(Cur, th, now))

\* if natural_end: with self.lock: self._advance_track_unlocked(loop_queue=True)
\* then break; an exception ends the thread as well
PumpAdvanceStep(self, th, t) ==
    Only({
        LET r == _advance_track_unlocked(s, TRUE, t) IN
        [r EXCEPT !.pumps = Ended(@, th)]
        : s \in {self}})

PumpAdvance(th) ==
    /\ th.pc = "advance"
    /\ \E r \in Outcomes({PumpAdvanceStep(s, th, now) : s \in Doomed(3)}) : Commit(r)

\* the steps of the pump threads that are alive
PumpsTop == \E th \in BagToSet(pumps) : PumpTop(th)

PumpsRead == \E th \in BagToSet(pumps) : PumpRead(th)

PumpsWrite == \E th \in BagToSet(pumps) : PumpWrite(th)

PumpsEof == \E th \in BagToSet(pumps) : PumpEof(th)

PumpsAdvance == \E th \in BagToSet(pumps) : PumpAdvance(th)

\* ---------------------------------------------------- the watcher thread
\* with self.lock: proc = self.encoder_proc; status = self.status
\* if the test of line 866 fails the thread sleeps and reads again
WatcherReadStep(self) ==
    Only({
        IF s.encoder_proc # None /\ s.status = "playing"
        THEN [s EXCEPT !.watcher = [pc |-> "poll", proc |-> s.encoder_proc,
                                    ret |-> ""]]
        ELSE s
        : s \in {self}})

WatcherRead ==
    /\ watcher.pc = "read"
    /\ Commit(WatcherReadStep(Cur))

\* ret = proc.poll()  (outside the lock); if ret is None the thread sleeps
\* and reads again
WatcherPollStep(self) ==
    Only({
        IF s.encs[s.watcher.proc] = "run"
        THEN [s EXCEPT !.watcher = WatcherIdle]
        ELSE [s EXCEPT !.watcher = [pc |-> "recover", proc |-> s.watcher.proc,
                                    ret |-> s.encs[s.watcher.proc]]]
        : s \in {self}})

WatcherPoll ==
    /\ watcher.pc = "poll"
    /\ Commit(WatcherPollStep(Cur))

\* A variant that restarts after a clean exit as well (claim C20).
WatcherRecover_restarts_on_zero(self, ret, t) ==
    Only({
        LET k == [_kill_audio_unlocked(s) EXCEPT !.encoder_proc = None]
            r == _restart_full_pipeline_unlocked(k, _get_position_unlocked(k, t), t)
        IN IF k.playlist # <<>> /\ ~stop_flag
           THEN IF r.exc /\ ~r.ovf THEN [r EXCEPT !.exc = FALSE, !.status = "error"]
                ELSE [r EXCEPT !.status = "playing"]
           ELSE [k EXCEPT !.status = "error"]
        : s \in {self}})

\* the locked block of lines 870-896, for the exit state ret that poll
\* returned
WatcherRecover(self, ret, t) ==
    Only({
        LET k == [_kill_audio_unlocked(s) EXCEPT !.encoder_proc = None]
            r == _restart_full_pipeline_unlocked(k, _get_position_unlocked(k, t), t)
        IN IF ret = "exit0" THEN [k EXCEPT !.status = "stopped"]
           ELSE IF k.playlist # <<>> /\ ~stop_flag
           THEN IF r.exc /\ ~r.ovf THEN [r EXCEPT !.exc = FALSE, !.status = "error"]
                ELSE [r EXCEPT !.status = "playing"]
           ELSE [k EXCEPT !.status = "error"]
        : s \in {self}})

\* if ret is not None: with self.lock: ...; time.sleep(1.0)
WatcherRecoverStep(self, t) ==
    Only({WatcherRecover([s EXCEPT !.watcher = WatcherIdle], s.watcher.ret, t) : s \in {self}})

WatcherRecovery ==
    /\ watcher.pc = "recover"
    /\ \E r \in Outcomes({WatcherRecoverStep(s, now) : s \in Doomed(2)}) : Commit(r)

\* ------------------------------------------------------- the environment
\* a running encoder exits by itself, with code 0 or with a non-zero code
EncoderExits ==
    \E e \in DOMAIN encs : \E ret \in {"exit0", "exit1"} :
        /\ encs[e] = "run"
        /\ Commit([Cur EXCEPT !.encs[e] = ret])

\* a running decoder reaches the end of its track (or fails) and exits
DecoderExits ==
    \E d \in DOMAIN decs :
        /\ decs[d].st = "run"
        /\ Commit([Cur EXCEPT !.decs[d] = DeadDec("exited")])

\* one second passes
Tick ==
    /\ now < MaxTime
    /\ now' = now + 1
    /\ UNCHANGED <<playlist, current_index, status, position_sec,
                   last_start_monotonic, video_file, overlay_text, rtmp_url,
                   ffmpeg_path, encoder_proc, audio_proc, _stop_audio_pump,
                   track_durations, _consecutive_failures, _recent_seek_time,
                   encoder_settings,
                   encs, decs, pumps, watcher, crash_count, call_exits, lock, calls,
                   _config_lock, requests>>

\* the encoder of a playing pipeline crashes: the process the handle refers
\* to exits with a non-zero code
EncoderCrash ==
    /\ crash_count < MaxCrashes
    /\ status = "playing"
    /\ EncAlive(Cur, encoder_proc)
    /\ encs' = [encs EXCEPT ![encoder_proc] = "exit1"]
    /\ crash_count' = crash_count + 1
    /\ UNCHANGED <<playlist, current_index, status, position_sec,
                   last_start_monotonic, video_file, overlay_text, rtmp_url,
                   ffmpeg_path, encoder_proc, audio_proc, _stop_audio_pump,
                   track_durations, _consecutive_failures, _recent_seek_time,
                   encoder_settings, decs, pumps, watcher, now, call_exits, lock,
                   calls, _config_lock, requests>>

EncoderCrashFew == crash_count < MaxCrashesLive /\ EncoderCrash

\* an encoder process exits by itself, with either code, at most
\* MaxCrashesLive times
EncoderExitsFew ==
    /\ crash_count < MaxCrashesLive
    /\ \E e \in DOMAIN encs : \E ret \in {"exit0", "exit1"} :
          /\ encs[e] = "run"
          /\ Assign([Cur EXCEPT !.encs[e] = ret])
    /\ crash_count' = crash_count + 1
    /\ UNCHANGED <<now, lock, calls, _config_lock, requests>>

\* the calls that set playback up, made before the first crash
LoadBeforeCrash == crash_count = 0 /\ LoadPlaylist

SetVideoBeforeCrash == crash_count = 0 /\ SetVideo

PlayBeforeCrash == crash_count = 0 /\ Play

Next ==
    \/ LoadPlaylist
    \/ SetVideo
    \/ Play
    \/ Pause
    \/ Stop
    \/ SkipNext
    \/ Seek
    \/ PumpsTop
    \/ PumpsRead
    \/ PumpsWrite
    \/ PumpsEof
    \/ PumpsAdvance
    \/ EncoderExits
    \/ DecoderExits

\* The control calls, the pump threads and the processes, all within one
\* second of the clock; the encoder may exit at any time, also inside a
\* call.  Of the four setters that restart a playing pipeline, set_video
\* stands for set_overlay_text and set_ffmpeg_path, whose restart is the
\* same; set_rtmp restarts twice and runs under SpecReconnect.  The watcher
\* runs under SpecWatch, play_index and set_playlist_order under
\* SpecIndexing.
Spec == Init /\ [][Next]_vars

\* The watcher against play, pause and stop, the pump threads and the
\* processes; the encoder may exit at any time, with either code, also
\* inside a call and inside the watcher's recovery.
NextWatch ==
    \/ LoadFull
    \/ SetVideo
    \/ Play
    \/ Pause
    \/ Stop
    \/ PumpsTop
    \/ PumpsRead
    \/ PumpsWrite
    \/ PumpsEof
    \/ PumpsAdvance
    \/ WatcherRead
    \/ WatcherPoll
    \/ WatcherRecovery
    \/ EncoderExits
    \/ DecoderExits

SpecWatch == Init /\ [][NextWatch]_vars

\* set_rtmp and set_video while the pump threads run, with room for the
\* three decoders and pump threads that one set_rtmp leaves; the encoder
\* exits only inside a call
NextReconnect ==
    \/ playlist = <<>> /\ LoadFull
    \/ SetVideo
    \/ SetRtmp
    \/ Play
    \/ PumpsTop
    \/ PumpsRead
    \/ PumpsWrite
    \/ PumpsEof
    \/ PumpsAdvance

SpecReconnect == InitWide /\ [][NextReconnect]_vars


\* The clock runs: playback of the full playlist with seek, the pump
\* threads, the decoder's end of track and the encoder's exit, at any time
\* and inside a call.
NextTimed ==
    \/ LoadFull
    \/ video_file = NoVideo /\ SetVideo
    \/ Play
    \/ SeekOf({MaxDur})
    \/ PumpsTop
    \/ PumpsRead
    \/ PumpsWrite
    \/ PumpsEof
    \/ PumpsAdvance
    \/ DecoderExits
    \/ EncoderExits
    \/ Tick

SpecTimed == Init /\ [][NextTimed]_vars

\* The clock runs: play, pause and seek on every playlist, the empty one
\* included; the encoder may exit at any time, also inside a call; the pump
\* threads are not scheduled.
NextResume ==
    \/ LoadPlaylist
    \/ SetVideo
    \/ Play
    \/ Pause
    \/ SeekAny
    \/ EncoderExits
    \/ Tick

SpecResume == Init /\ [][NextResume]_vars

\* Spawns that fail: an ffmpeg path that does not exist, an empty RTMP URL;
\* the encoder may exit at any time, also inside a call and inside the
\* watcher's recovery; the pump threads are not scheduled.
NextFail ==
    \/ LoadShort
    \/ SetVideo
    \/ SetRtmpOf(RtmpArgsBad)
    \/ SetFfmpegPathOf(FfmpegArgsBad)
    \/ Play
    \/ WatcherRead
    \/ WatcherPoll
    \/ WatcherRecovery
    \/ EncoderExits

SpecFail == Init /\ [][NextFail]_vars

\* every playlist and every index: the calls and the pump steps that set
\* current_index; the encoder exits only inside a call
NextIndexing ==
    \/ LoadAnyOk
    \/ SetPlaylistOrderAny
    \/ video_file = NoVideo /\ SetVideo
    \/ Play
    \/ PlayIndex
    \/ Pause
    \/ Stop
    \/ SkipNext
    \/ PumpsTop
    \/ PumpsRead
    \/ PumpsWrite
    \/ PumpsEof
    \/ PumpsAdvance
    \/ DecoderExits

SpecIndexing == Init /\ [][NextIndexing]_vars

\* seek with every probe result and every argument; the pump threads are
\* not scheduled
NextSeek ==
    \/ LoadPlaylistOf(PlaylistArgs, ProbeOutputs)
    \/ SetVideo
    \/ Play
    \/ PlayIndex
    \/ Stop
    \/ SeekAny

SpecSeek == Init /\ [][NextSeek]_vars

\* _advance_track_unlocked with loop_queue true and false; the encoder may
\* exit at any time, also inside a call; the pump threads are not scheduled
NextAdvance ==
    \/ LoadAnyOk
    \/ SetVideo
    \/ Play
    \/ PlayIndex
    \/ Stop
    \/ AdvanceTrack
    \/ EncoderExits

SpecAdvance == Init /\ [][NextAdvance]_vars

\* ------------------------------------------------------------ self.lock
\* A variant of the lock that admits every thread (claim C30).
LockFree_unguarded(th) == TRUE

\* threading.RLock: a thread may enter when no thread holds the lock or when
\* it holds the lock itself
LockFree(th) == lock.owner \in {NoThread, th}

\* RLock.acquire and RLock.release by thread th
Acquired(th) == [owner |-> th, count |-> lock.count + 1]

Released(th) ==
    IF lock.count <= 1 THEN FreeLock
    ELSE [owner |-> lock.owner, count |-> lock.count - 1]

\* the supervisor's fields in record s
View(s) ==
    [playlist |-> s.playlist, current_index |-> s.current_index,
     status |-> s.status, position_sec |-> s.position_sec,
     last_start_monotonic |-> s.last_start_monotonic,
     video_file |-> s.video_file, overlay_text |-> s.overlay_text,
     rtmp_url |-> s.rtmp_url, ffmpeg_path |-> s.ffmpeg_path,
     encoder_proc |-> s.encoder_proc, audio_proc |-> s.audio_proc,
     _stop_audio_pump |-> s._stop_audio_pump,
     track_durations |-> s.track_durations,
     _consecutive_failures |-> s._consecutive_failures,
     _recent_seek_time |-> s._recent_seek_time,
     encoder_settings |-> s.encoder_settings]

\* the public control operations of PlayerState, each with one argument
LockOps == {"load_playlist", "set_playlist_order", "set_video",
            "set_overlay_text", "set_rtmp", "set_ffmpeg_path",
            "set_encoder_settings", "play", "play_index", "pause", "stop",
            "skip_next", "seek"}
\* the operations whose request handler calls save_config() when the
\* operation has returned (app.py 244, 260, 273, 287, 298, 311, 324, 454)
SavingOps == {"load_playlist", "set_playlist_order", "set_video",
              "set_encoder_settings", "set_overlay_text", "set_rtmp",
              "set_ffmpeg_path", "skip_next"}
ProfileCfg == [EmptyCfg EXCEPT !.video_bitrate = "1200k"]

ApplyOp(s, op, t) ==
    CASE op = "load_playlist" ->
            load_playlist(s, <<"a.mp3">>, <<[ok |-> TRUE, val |-> 2]>>)
      [] op = "set_playlist_order" ->
            set_playlist_order(s, <<"a.mp3">>, <<[ok |-> TRUE, val |-> 2]>>)
      [] op = "set_video" -> set_video(s, "v.mp4", t)
      [] op = "set_overlay_text" -> set_overlay_text(s, "", t)
      [] op = "set_rtmp" -> set_rtmp(s, DefaultRtmp, t)
      [] op = "set_ffmpeg_path" -> set_ffmpeg_path(s, "ffmpeg", t)
      [] op = "set_encoder_settings" -> set_encoder_settings(s, ProfileCfg)
      [] op = "play" -> play(s, t)
      [] op = "play_index" -> play_index(s, 0, t)
      [] op = "pause" -> pause(s, t)
      [] op = "stop" -> stop(s)
      [] op = "skip_next" -> skip_next(s, t)
      [] op = "seek" -> seek(s, 1, t)

\* A request arrives and its handler enters "with self.lock:" of the
\* operation op.
CallEnter(c, op) ==
    /\ calls[c].pc = "idle"
    /\ requests < MaxRequests
    /\ LockFree(c)
    /\ lock' = Acquired(c)
    /\ calls' = [calls EXCEPT ![c] =
                    [pc |-> "held", op |-> op, seen |-> View(Cur)]]
    /\ requests' = requests + 1
    /\ UNCHANGED <<playlist, current_index, status, position_sec,
                   last_start_monotonic, video_file, overlay_text, rtmp_url,
                   ffmpeg_path, encoder_proc, audio_proc, _stop_audio_pump,
                   track_durations, _consecutive_failures, _recent_seek_time,
                   encoder_settings, encs, decs, pumps, watcher, now,
                   crash_count, call_exits, _config_lock>>

\* The body of the operation runs on the state it finds and the lock is
\* released (also when the body raises); the handler goes on to save_config()
\* where it has one and the operation has not raised.
CallBody(c) ==
    /\ calls[c].pc = "held"
    /\ \E r \in Outcomes({ApplyOp(s, calls[c].op, now) : s \in Doomed(5)}) :
          /\ Assign(r)
          /\ calls' = [calls EXCEPT ![c] =
                          IF calls[c].op \in SavingOps /\ ~r.exc
                          THEN [pc |-> "save", op |-> "save_config", seen |-> <<>>]
                          ELSE IdleCall]
    /\ lock' = Released(c)
    /\ UNCHANGED <<now, crash_count, _config_lock, requests>>

\* save_config(), called by a handler after its operation ("save") or by
\* apply_profile inside its block ("profile_save"): with _config_lock:
SaveEnter(c) ==
    /\ calls[c].pc \in {"save", "profile_save"}
    /\ _config_lock = NoThread
    /\ _config_lock' = c
    /\ calls' = [calls EXCEPT ![c].pc =
                    IF @ = "save" THEN "saving" ELSE "profile_saving"]
    /\ UNCHANGED <<playlist, current_index, status, position_sec,
                   last_start_monotonic, video_file, overlay_text, rtmp_url,
                   ffmpeg_path, encoder_proc, audio_proc, _stop_audio_pump,
                   track_durations, _consecutive_failures, _recent_seek_time,
                   encoder_settings, encs, decs, pumps, watcher, now,
                   crash_count, call_exits, lock, requests>>

\* state = player_state.get_state(): self.lock is taken and released
\* (entered again and left once by the thread of apply_profile, which holds
\* it); _config_lock stays held
SaveGetState(c) ==
    /\ calls[c].pc \in {"saving", "profile_saving"}
    /\ LockFree(c)
    /\ calls' = [calls EXCEPT ![c].pc =
                    IF @ = "saving" THEN "saved" ELSE "profile_saved"]
    /\ UNCHANGED <<playlist, current_index, status, position_sec,
                   last_start_monotonic, video_file, overlay_text, rtmp_url,
                   ffmpeg_path, encoder_proc, audio_proc, _stop_audio_pump,
                   track_durations, _consecutive_failures, _recent_seek_time,
                   encoder_settings, encs, decs, pumps, watcher, now,
                   crash_count, call_exits, lock, _config_lock, requests>>

\* the file is written and the block of _config_lock left, with no hold on
\* self.lock asked for: the handler returns, apply_profile is still inside
\* its block
SaveRelease(c) ==
    /\ calls[c].pc \in {"saved", "profile_saved"}
    /\ _config_lock' = NoThread
    /\ calls' = [calls EXCEPT ![c] =
                    IF @.pc = "saved" THEN IdleCall
                    ELSE [@ EXCEPT !.pc = "profile_leave"]]
    /\ UNCHANGED <<playlist, current_index, status, position_sec,
                   last_start_monotonic, video_file, overlay_text, rtmp_url,
                   ffmpeg_path, encoder_proc, audio_proc, _stop_audio_pump,
                   track_durations, _consecutive_failures, _recent_seek_time,
                   encoder_settings, encs, decs, pumps, watcher, now,
                   crash_count, call_exits, lock, requests>>

\* apply_profile: with player_state.lock: ...
ProfileEnter(c) ==
    /\ calls[c].pc = "idle"
    /\ requests < MaxRequests
    /\ LockFree(c)
    /\ lock' = Acquired(c)
    /\ calls' = [calls EXCEPT ![c] =
                    [pc |-> "profile", op |-> "apply_profile", seen |-> View(Cur)]]
    /\ requests' = requests + 1
    /\ UNCHANGED <<playlist, current_index, status, position_sec,
                   last_start_monotonic, video_file, overlay_text, rtmp_url,
                   ffmpeg_path, encoder_proc, audio_proc, _stop_audio_pump,
                   track_durations, _consecutive_failures, _recent_seek_time,
                   encoder_settings, encs, decs, pumps, watcher, now,
                   crash_count, call_exits, _config_lock>>

\* player_state.set_rtmp(url): the thread that holds the lock enters it again
\* and leaves it once; an exception leaves the outer block as well
ProfileSetRtmp(c) ==
    /\ calls[c].pc = "profile"
    /\ LockFree(c)
    /\ \E r \in Outcomes({set_rtmp(s, DefaultRtmp, now) : s \in Doomed(5)}) :
          /\ Assign(r)
          /\ calls' = [calls EXCEPT ![c] =
                          IF r.exc THEN IdleCall
                          ELSE [pc |-> "settings", op |-> "apply_profile",
                                seen |-> View(r)]]
          /\ lock' = IF r.exc THEN Released(c) ELSE lock
    /\ UNCHANGED <<now, crash_count, _config_lock, requests>>

\* player_state.set_encoder_settings(enc_cfg), inside the outer block
ProfileSetSettings(c) ==
    /\ calls[c].pc = "settings"
    /\ LockFree(c)
    /\ \E r \in {set_encoder_settings(Cur, ProfileCfg)} :
          /\ Assign(r)
          /\ calls' = [calls EXCEPT ![c] =
                          IF r.exc THEN IdleCall
                          ELSE [pc |-> "profile_save", op |-> "apply_profile",
                                seen |-> View(r)]]
          /\ lock' = IF r.exc THEN Released(c) ELSE lock
    /\ UNCHANGED <<now, crash_count, _config_lock, requests>>

\* save_config() has returned: the block of player_state.lock is left
ProfileLeave(c) ==
    /\ calls[c].pc = "profile_leave"
    /\ lock' = Released(c)
    /\ calls' = [calls EXCEPT ![c] = IdleCall]
    /\ UNCHANGED <<playlist, current_index, status, position_sec,
                   last_start_monotonic, video_file, overlay_text, rtmp_url,
                   ffmpeg_path, encoder_proc, audio_proc, _stop_audio_pump,
                   track_durations, _consecutive_failures, _recent_seek_time,
                   encoder_settings, encs, decs, pumps, watcher, now,
                   crash_count, call_exits, _config_lock, requests>>

\* the positions of a handler inside a control operation (the operation of
\* PlayerState, or the block of apply_profile)
InOperation == {"held", "profile", "settings", "profile_save", "profile_saving",
                "profile_saved", "profile_leave"}

\* a run is followed until its last operation has returned: a request is
\* still to come, or a client is inside an operation
Busy == requests < MaxRequests \/ \E c \in CallerIds : calls[c].pc \in InOperation

\* Two client threads, the watcher and the pump threads contend for the
\* lock: the locked blocks of the watcher and of the pump threads are entered
\* and left within a step (poll, read and write happen outside the lock).
\* The clients send MaxRequests requests, each for any operation; the
\* encoder exits inside a call, and tracks end.
NextLock ==
    \/ \E c \in CallerIds : \E op \in LockOps : CallEnter(c, op)
    \/ \E c \in CallerIds : CallBody(c)
    \/ \E c \in CallerIds : SaveEnter(c)
    \/ \E c \in CallerIds : SaveGetState(c)
    \/ \E c \in CallerIds : SaveRelease(c)
    \/ \E c \in CallerIds : ProfileEnter(c)
    \/ \E c \in CallerIds : ProfileSetRtmp(c)
    \/ \E c \in CallerIds : ProfileSetSettings(c)
    \/ \E c \in CallerIds : ProfileLeave(c)
    \/ Busy /\ LockFree("watcher") /\ WatcherRead
    \/ Busy /\ WatcherPoll
    \/ Busy /\ LockFree("watcher") /\ WatcherRecovery
    \/ Busy /\ LockFree("pump") /\ PumpsTop
    \/ Busy /\ PumpsRead
    \/ Busy /\ PumpsWrite
    \/ Busy /\ LockFree("pump") /\ PumpsEof
    \/ Busy /\ LockFree("pump") /\ PumpsAdvance
    \/ Busy /\ DecoderExits

SpecLock == InitLock /\ [][NextLock]_vars

\* stop and pause against the background threads: the playlist is never
\* empty and the encoder exits only with a non-zero code, so that status
\* leaves playing for stopped or paused only through stop() and pause()
NextSticky ==
    \/ LoadFull
    \/ SetVideo
    \/ Play
    \/ Pause
    \/ Stop
    \/ EncoderCrashFew
    \/ WatcherRead
    \/ WatcherPoll
    \/ WatcherRecovery
    \/ PumpsTop
    \/ PumpsRead
    \/ PumpsWrite
    \/ PumpsEof
    \/ PumpsAdvance
    \/ DecoderExits

SpecSticky == Init /\ [][NextSticky]_vars

\* the duration map and the position: every playlist with every probe
\* result, loaded and reordered while stopped, playing and paused and at the
\* position a seek leaves; the pump threads are not scheduled
NextDurations ==
    \/ LoadAnyProbed
    \/ SetPlaylistOrderAnyProbed
    \/ video_file = NoVideo /\ SetVideo
    \/ Play
    \/ Pause
    \/ SeekOf({1})

SpecDurations == Init /\ [][NextDurations]_vars

\* process creation that succeeds, fails with FileNotFoundError or fails with
\* another OSError; the pump threads are not scheduled
NextSpawn ==
    \/ LoadShort
    \/ SetVideo
    \/ SetFfmpegPathOf(FfmpegArgsAny)
    \/ Play
    \/ PlayIndex
    \/ Seek
    \/ SkipNext
    \/ Pause
    \/ Stop

SpecSpawn == InitWide /\ [][NextSpawn]_vars

\* reordering: every playlist and every index, in every status but error; the
\* pump threads are not scheduled
NextReorder ==
    \/ LoadAnyOk
    \/ SetPlaylistOrderAny
    \/ SetVideo
    \/ Play
    \/ PlayIndex
    \/ Pause
    \/ Stop
    \/ SkipNext

SpecReorder == InitWide /\ [][NextReorder]_vars

\* playback is set up and then left alone: the encoder crashes up to
\* MaxCrashes times, the watcher and the pump threads run
NextCrash ==
    \/ LoadBeforeCrash
    \/ SetVideoBeforeCrash
    \/ PlayBeforeCrash
    \/ EncoderCrash
    \/ WatcherRead
    \/ WatcherPoll
    \/ WatcherRecovery
    \/ PumpsTop
    \/ PumpsRead
    \/ PumpsWrite
    \/ PumpsEof
    \/ PumpsAdvance
    \/ DecoderExits

SpecCrash == Init /\ [][NextCrash]_vars

\* The playlist is loaded once; set_video and play may come at any time,
\* also after an encoder has exited; the encoder exits up to MaxCrashesLive
\* times by itself, with either code, and may exit inside a call; the
\* watcher and the pump threads run.
NextRecover ==
    \/ playlist = <<>> /\ LoadFull
    \/ SetVideo
    \/ Play
    \/ EncoderExitsFew
    \/ WatcherRead
    \/ WatcherPoll
    \/ WatcherRecovery
    \/ PumpsTop
    \/ PumpsRead
    \/ PumpsWrite
    \/ PumpsEof
    \/ PumpsAdvance

SpecRecover == InitRecover /\ [][NextRecover]_vars

\* The watcher thread and the pump threads are scheduled: a thread that
\* can take its next step (it waits for the lock, or its blocking call can
\* return) takes it.
RecoverFairness ==
    /\ WF_vars(WatcherRead)
    /\ WF_vars(WatcherPoll)
    /\ WF_vars(WatcherRecovery)
    /\ WF_vars(PumpsTop)
    /\ WF_vars(PumpsRead)
    /\ WF_vars(PumpsWrite)
    /\ WF_vars(PumpsEof)
    /\ WF_vars(PumpsAdvance)

SpecRecoverFair == SpecRecover /\ RecoverFairness

\* the four setters that restart a playing pipeline, with the clock running,
\* while stopped, playing, paused and in error; the encoder may exit at any
\* time, also inside a call; the pump threads are not scheduled
NextSetters ==
    \/ LoadFull
    \/ SetVideo
    \/ SetOverlayTextTwo
    \/ SetRtmpTwo
    \/ SetFfmpegPathTwo
    \/ Play
    \/ Pause
    \/ EncoderExits
    \/ Tick

SpecSetters == InitWide /\ [][NextSetters]_vars

\* the calls that restart or stop the pipeline, with the clock running, from
\* every status; the encoder exits only inside a call; the pump threads are
\* not scheduled
NextRestart ==
    \/ LoadPlaylist
    \/ SetVideoTwo
    \/ SetOverlayTextTwo
    \/ SetRtmpTwo
    \/ SetFfmpegPathTwo
    \/ SetEncoderSettings
    \/ SetEncoderSettingsTwo
    \/ Play
    \/ Pause
    \/ Stop
    \/ Tick

SpecRestart == InitWide /\ [][NextRestart]_vars


\* ------------------------------------------------------------- claims
LiveEncs == {e \in DOMAIN encs : encs[e] = "run"}
LiveDecs == {d \in DOMAIN decs : decs[d].st = "run"}

\* C1: at most one decoder and at most one encoder started by the supervisor
\* is alive, and every live one is the process the supervisor's handle
\* refers to.
C1_SingleWorker ==
    /\ Cardinality(LiveEncs) <= 1
    /\ Cardinality(LiveDecs) <= 1
    /\ \A e \in LiveEncs : e = encoder_proc
    /\ \A d \in LiveDecs : d = audio_proc

\* a pump-triggered advance: the second locked block of some pump thread
NaturalAdvance == PumpsAdvance

\* the state of a pump thread that has decided on a natural end after the
\* EOF of decoder d, and the step in which one more thread reaches it
Advancing(d) == [pc |-> "advance", dec |-> d, enc |-> None]
DecidesNaturalEnd(d) == CopiesIn(Advancing(d), pumps') > CopiesIn(Advancing(d), pumps)

\* the pump threads that are in out.read on decoder d
Readers(d) == {th \in BagToSet(pumps) : th.pc = "read" /\ th.dec = d}

\* C2: skip_next, a natural-end advance and seek, performed while status =
\* playing, leave the encoder handle unchanged.
C2_EncoderKept ==
    [][(status = "playing" /\ encoder_proc' # encoder_proc)
          => ~(SkipNext \/ NaturalAdvance \/ Seek)]_vars

\* C3: the EOF that a pump reads because its decoder was killed is a silent
\* exit: that pump does not decide on a natural end.
C3_KilledEofSilent ==
    [][\A th \in BagToSet(pumps) :
          (th.pc = "eof" /\ decs[th.dec].st = "killed" /\ PumpEof(th))
              => ~DecidesNaturalEnd(th.dec)]_vars

C10_PlayingHasEncoder == status = "playing" => encoder_proc # None

\* C4: when a pump handles an EOF less than 2 s after the most recent seek,
\* it does not decide on a natural end, and current_index is unchanged.
C4_SeekEofSuppressed ==
    [][\A th \in BagToSet(pumps) :
          (/\ th.pc = "eof"
           /\ _recent_seek_time # 0 /\ now - _recent_seek_time < 2
           /\ PumpEof(th))
              => (~DecidesNaturalEnd(th.dec) /\ current_index' = current_index)]_vars

\* C4's case: the current decoder, started by a seek less than 2 s ago, has
\* ended while playing, and its pump has read the EOF.
C4_Witness ==
    \E th \in BagToSet(pumps) :
        /\ th.pc = "eof" /\ th.dec = audio_proc
        /\ status = "playing" /\ ~_stop_audio_pump
        /\ _recent_seek_time # 0 /\ now - _recent_seek_time < 2
        /\ now > _recent_seek_time

\* a new decoder runs for the track at the new index, started at offset 0
NewDecoderAtZero ==
    /\ audio_proc' \notin {None, audio_proc}
    /\ decs'[audio_proc'] =
           [st |-> "run", track |-> playlist[current_index' + 1],
            start |-> 0, buf |-> 0]

\* C5 as stated: a pump that handles an EOF while status = playing, not
\* signalled to stop and with no seek in the last 2 s, decides on a natural
\* end; its advance then moves to (current_index + 1) mod len(playlist),
\* sets the position to 0 and starts a new decoder for that track at
\* offset 0.
C5_NaturalEndAdvances ==
    [][\A th \in BagToSet(pumps) :
          /\ (/\ th.pc = "eof"
              /\ status = "playing" /\ ~_stop_audio_pump /\ playlist # <<>>
              /\ (_recent_seek_time = 0 \/ now - _recent_seek_time >= 2)
              /\ PumpEof(th))
                 => DecidesNaturalEnd(th.dec)
          /\ (th.pc = "advance" /\ playlist # <<>> /\ PumpAdvance(th))
                 => (/\ current_index' = (current_index + 1) % Len(playlist)
                     /\ position_sec' = 0
                     /\ NewDecoderAtZero)]_vars

\* C5, amended: the decision and the new index and position are as stated;
\* the new decoder runs, with status = playing, when the encoder runs as
\* the advance returns (ffmpeg_path being an executable).
C5_NaturalEndAdvancesLive ==
    [][\A th \in BagToSet(pumps) :
          /\ (/\ th.pc = "eof"
              /\ status = "playing" /\ ~_stop_audio_pump /\ playlist # <<>>
              /\ (_recent_seek_time = 0 \/ now - _recent_seek_time >= 2)
              /\ PumpEof(th))
                 => DecidesNaturalEnd(th.dec)
          /\ (th.pc = "advance" /\ playlist # <<>> /\ PumpAdvance(th))
                 => (/\ current_index' = (current_index + 1) % Len(playlist)
                     /\ position_sec' = 0
                     /\ (EncAlive(Cur, encoder_proc)' /\ ffmpeg_path \in FfmpegArgsTwo)
                            => (status' = "playing" /\ NewDecoderAtZero))]_vars

\* C5's case: a seek to a position > 0 is at least 2 s old, and the pump of
\* the current decoder has decided on a natural end on the last track.
C5_Witness ==
    \E th \in BagToSet(pumps) :
        /\ th.pc = "advance" /\ th.dec = audio_proc
        /\ status = "playing"
        /\ _recent_seek_time # 0 /\ position_sec > 0
        /\ current_index = Len(playlist) - 1 /\ Len(playlist) = MaxLen

\* the duration of the current track, as far as seek() knows one
DurationKnown ==
    /\ playlist # <<>>
    /\ 0 <= current_index /\ current_index < Len(playlist)
    /\ playlist[current_index + 1] \in DOMAIN track_durations
    /\ track_durations[playlist[current_index + 1]] > 0
D == track_durations[playlist[current_index + 1]]

\* C6: seek(s) with s >= D, D the known duration of the current track,
\* stores max(D - 1, 0); seek(s) with s < 0 stores 0.
C6_SeekClamp ==
    [][\A seconds \in SeekArgs :
          (\/ (DurationKnown /\ seconds >= D /\ position_sec' # Max(D - 1, 0))
           \/ (seconds < 0 /\ position_sec' # 0))
              => ~Control(seek(Cur, seconds, now))]_vars

\* C6's case: a seek has stored the clamped position D - 1 on a stopped
\* player.
C6_Witness ==
    /\ DurationKnown /\ D = MaxDur /\ position_sec = D - 1
    /\ _recent_seek_time # 0
    /\ status = "stopped"

\* C7 as stated: after seek(s), with D known, position_sec is in [0, D - 1).
C7_SeekBelowLastSecond ==
    [][\A seconds \in SeekArgs :
          (DurationKnown /\ ~(0 <= position_sec' /\ position_sec' < D - 1))
              => ~Control(seek(Cur, seconds, now))]_vars

\* C7, amended: after seek(s), with D known, position_sec is in [0, D).
C7_SeekBelowDuration ==
    [][\A seconds \in SeekArgs :
          (DurationKnown /\ ~(0 <= position_sec' /\ position_sec' < D))
              => ~Control(seek(Cur, seconds, now))]_vars

\* C7's case: while playing, a seek has restarted the decoder in the last
\* second of the track.
C7_Witness ==
    /\ DurationKnown /\ position_sec = D - 1 /\ D > 1
    /\ status = "playing"
    /\ audio_proc # None /\ decs[audio_proc].start = D - 1

\* C8: a track advance from the last index wraps to 0 when loop_queue is
\* true; when it is false it sets status = stopped, keeps the index and
\* kills the decoder; from any other valid index it moves to the next one.
C8_AdvanceWraparound ==
    [][\A loop_queue \in BOOLEAN :
          (/\ playlist # <<>>
           /\ 0 <= current_index /\ current_index < Len(playlist)
           /\ Control(_advance_track_unlocked(Cur, loop_queue, now)))
              => IF current_index = Len(playlist) - 1
                 THEN IF loop_queue
                      THEN current_index' = 0
                      ELSE /\ status' = "stopped"
                           /\ current_index' = current_index
                           /\ audio_proc' = None
                           /\ \A d \in DOMAIN decs : decs'[d].st # "run"
                 ELSE current_index' = current_index + 1]_vars

\* C8's case: the advance without loop has stopped playback on the last
\* track: the encoder is still alive and the decoder is gone.
C8_Witness ==
    /\ status = "stopped"
    /\ Len(playlist) = MaxLen /\ current_index = MaxLen - 1
    /\ EncAlive(Cur, encoder_proc)
    /\ audio_proc = None /\ _stop_audio_pump

\* C11: play() called while status = playing changes neither status,
\* current_index, position_sec, last_start_monotonic, the decoder handle, the
\* encoder handle nor any pump thread or process.
C11_PlayNoOp ==
    [][(status = "playing" /\ Play)
          => UNCHANGED <<status, current_index, position_sec, last_start_monotonic,
                         audio_proc, encoder_proc, _stop_audio_pump,
                         pumps, decs, encs>>]_vars

\* C11's case: playing for at least a second, with both workers alive and
\* the pump blocked in its read; play() is called in this state.
C11_Witness ==
    /\ status = "playing" /\ now > last_start_monotonic
    /\ EncAlive(Cur, encoder_proc) /\ DecAlive(Cur, audio_proc)
    /\ Readers(audio_proc) # {}

\* play() has resumed: a decoder runs that was started at the stored
\* position_sec, and the position reported right after equals it
ResumedAtStored ==
    /\ status' = "playing"
    /\ audio_proc' # None
    /\ decs'[audio_proc'].st = "run"
    /\ decs'[audio_proc'].start = position_sec
    /\ position_sec' + (now' - last_start_monotonic') = position_sec

\* C12 as stated: pause() while playing stores position_sec + (now -
\* last_start_monotonic) in position_sec, leaves both handles None and sets
\* status = paused; a following play() starts a decoder at the stored
\* position_sec, and the position reported right after equals it.
C12_PauseResume ==
    [][/\ (status = "playing" /\ Pause)
            => (/\ position_sec' = position_sec + (now - last_start_monotonic)
                /\ audio_proc' = None /\ encoder_proc' = None
                /\ status' = "paused")
       /\ (status = "paused" /\ Play) => ResumedAtStored]_vars

\* C12, amended: pause() as stated; a following play() that returns with
\* the encoder running has started the decoder at the stored position_sec,
\* and the position reported right after equals it.
C12_PauseResumeLive ==
    [][/\ (status = "playing" /\ Pause)
            => (/\ position_sec' = position_sec + (now - last_start_monotonic)
                /\ audio_proc' = None /\ encoder_proc' = None
                /\ status' = "paused")
       /\ (status = "paused" /\ Play /\ EncAlive(Cur, encoder_proc)')
            => ResumedAtStored]_vars

\* C12's case: without any seek, playback has just been resumed at a
\* position > 0, which only a pause after some seconds of playing stores.
C12_Witness ==
    /\ status = "playing" /\ _recent_seek_time = 0
    /\ position_sec > 0 /\ last_start_monotonic = now
    /\ audio_proc # None /\ decs[audio_proc].start = position_sec

\* C13: pause() called while status is stopped, paused or error leaves
\* status unchanged.
C13_PauseOnlyFromPlaying ==
    [][(status # "playing" /\ status' # status) => ~Pause]_vars

\* a process that was not running before the step runs after it
Spawned ==
    \/ \E e \in DOMAIN encs : encs[e] # "run" /\ encs'[e] = "run"
    \/ \E d \in DOMAIN decs : decs[d].st # "run" /\ decs'[d].st = "run"

\* C14: skip_next() called while status is stopped, paused or error leaves
\* status unchanged and starts no worker.
C14_SkipOnlyFromPlaying ==
    [][(status # "playing" /\ (status' # status \/ Spawned)) => ~SkipNext]_vars

\* the processes the handles referred to before the step are not running
\* after it
OldWorkersDead ==
    /\ encoder_proc # None => encs'[encoder_proc] # "run"
    /\ audio_proc # None => decs'[audio_proc].st # "run"

\* C15: when stop() returns, status = stopped, position_sec = 0, both handles
\* are None, the processes they referred to are not running, and
\* _stop_audio_pump is set.
C15_StopPostcondition ==
    [][Stop => (/\ status' = "stopped" /\ position_sec' = 0
                /\ audio_proc' = None /\ encoder_proc' = None
                /\ OldWorkersDead
                /\ _stop_audio_pump')]_vars

\* C15's case: stopped with a playlist loaded, some seconds after the last
\* start, no decoder running and a pump thread left that was signalled.
C15_Witness ==
    /\ status = "stopped" /\ position_sec = 0
    /\ playlist # <<>> /\ last_start_monotonic < now
    /\ audio_proc = None /\ encoder_proc = None /\ _stop_audio_pump
    /\ \A d \in DOMAIN decs : decs[d].st # "run"
    /\ BagIn(TopPump, pumps)

\* C16: load_playlist(paths) sets playlist = paths, current_index = 0 and
\* position_sec = 0 and leaves status, both handles, the stop flag, the pump
\* threads and the processes unchanged.
C16_LoadPlaylistFrame ==
    [][\A paths \in PlaylistArgs : \A outs \in [1..Len(paths) -> ProbeOk] :
          Control(load_playlist(Cur, paths, outs))
              => (/\ playlist' = paths /\ current_index' = 0 /\ position_sec' = 0
                  /\ UNCHANGED <<status, audio_proc, encoder_proc, _stop_audio_pump,
                                 pumps, decs, encs>>)]_vars

\* C16's case: playing, with a decoder that was started at an offset > 0
\* still running, and position_sec reset to 0.
C16_Witness ==
    /\ status = "playing" /\ position_sec = 0 /\ current_index = 0
    /\ DecAlive(Cur, audio_proc) /\ decs[audio_proc].start > 0
    /\ EncAlive(Cur, encoder_proc)

\* C17: set_playlist_order(paths) sets playlist = paths; if the path that
\* was current occurs in paths, current_index points at an entry equal to
\* it, otherwise current_index = 0; status, the handles, the pump threads
\* and the processes are unchanged.
C17_ReorderKeepsTrack ==
    [][\A paths \in AllPlaylists : \A outs \in [1..Len(paths) -> ProbeOk] :
          Control(set_playlist_order(Cur, paths, outs))
              => (/\ playlist' = paths
                  /\ IF /\ playlist # <<>>
                        /\ \E i \in 1..Len(paths) : paths[i] = playlist[current_index + 1]
                     THEN /\ 0 <= current_index' /\ current_index' < Len(paths)
                          /\ paths[current_index' + 1] = playlist[current_index + 1]
                     ELSE current_index' = 0
                  /\ UNCHANGED <<status, audio_proc, encoder_proc, _stop_audio_pump,
                                 pumps, decs, encs>>)]_vars

\* C17's case: the track being decoded is the current one, at index 1 of a
\* playlist whose first entry is another track.
C17_Witness ==
    /\ status = "playing" /\ current_index = 1
    /\ Len(playlist) = 2 /\ playlist[1] # playlist[2]
    /\ DecAlive(Cur, audio_proc) /\ decs[audio_proc].track = playlist[2]

\* the pipeline can be started with the settings after the step
CanStart ==
    /\ playlist # <<>>
    /\ video_file' # NoVideo
    /\ rtmp_url' # ""

\* a full restart: the old workers are terminated and, where the pipeline
\* can be started, a new encoder is spawned; on success (the new encoder
\* runs as the call returns) a new decoder runs, started at the live
\* position of the call, and status = playing
Restarted ==
    /\ OldWorkersDead
    /\ CanStart =>
         (/\ encoder_proc' # None
          /\ encs[encoder_proc'] # "run"
          /\ encs'[encoder_proc'] = "run" =>
                (/\ status' = "playing"
                 /\ audio_proc' # None
                 /\ decs[audio_proc'].st # "run" /\ decs'[audio_proc'].st = "run"
                 /\ decs'[audio_proc'].start =
                        position_sec + (now - last_start_monotonic)))

C19_SettingsRestart ==
    [][(status = "playing" /\ EncAlive(Cur, encoder_proc) /\ SetEncoderSettingsTwo)
          => (encoder_proc' # encoder_proc /\ encs'[encoder_proc] # "run")]_vars

\* C20: when the watcher, having read status = playing, finds that the
\* encoder it polls exited with code 0, it kills the decoder, clears the
\* encoder handle, sets status = stopped and spawns nothing.
C20_CleanExitStops ==
    [][(watcher.pc = "recover" /\ watcher.ret = "exit0" /\ WatcherRecovery)
          => (/\ audio_proc' = None
              /\ audio_proc # None => decs'[audio_proc].st # "run"
              /\ encoder_proc' = None
              /\ status' = "stopped"
              /\ ~Spawned)]_vars

\* C20's case: stopped with both handles None, while the pump of the killed
\* decoder still holds the encoder that exited with code 0.
C20_Witness ==
    /\ status = "stopped" /\ encoder_proc = None /\ audio_proc = None
    /\ watcher.pc = "read"
    /\ \E th \in BagToSet(pumps) :
          /\ th.pc = "read"
          /\ encs[th.enc] = "exit0"
          /\ decs[th.dec].st = "killed"

\* C21: when the watcher handles a non-zero exit of the encoder with a
\* non-empty playlist, the status it leaves is playing only if a live encoder
\* resulted, and error otherwise.
C21_RestartOutcome ==
    [][(/\ watcher.pc = "recover" /\ watcher.ret = "exit1"
        /\ playlist # <<>>
        /\ WatcherRecovery)
          => IF encoder_proc' # None /\ encs'[encoder_proc'] = "run"
             THEN status' = "playing"
             ELSE status' = "error"]_vars

\* C22: when the encoder has exited with a non-zero code five times in a
\* row while playing, the watcher that handles the exit sets status = error
\* and spawns nothing.
C22_RestartBounded ==
    [][(/\ crash_count >= 5
        /\ watcher.pc = "recover" /\ watcher.ret = "exit1"
        /\ WatcherRecovery)
          => (status' = "error" /\ ~Spawned)]_vars

\* the encoder the handle refers to has crashed while playing a playlist
Crashed ==
    /\ status = "playing" /\ playlist # <<>>
    /\ encoder_proc # None /\ encs[encoder_proc] = "exit1"

\* an encoder and a decoder run, the decoder started at the anchor position
Recovered ==
    /\ status = "playing"
    /\ EncAlive(Cur, encoder_proc)
    /\ DecAlive(Cur, audio_proc)
    /\ decs[audio_proc].start = position_sec

\* spawning has failed: an encoder has exited inside the call that polled it
SpawnFailed == call_exits > 0

\* C23: if the encoder exits with a non-zero code while status = playing
\* with a non-empty playlist, and spawning succeeds, then eventually an
\* encoder and a decoder run and status = playing; the watcher's restart
\* starts the decoder at the live position it reads.
C23_Recovery ==
    /\ (Crashed /\ ~SpawnFailed) ~> (Recovered \/ SpawnFailed)
    /\ [][(/\ watcher.pc = "recover" /\ watcher.ret = "exit1"
            /\ status = "playing" /\ playlist # <<>>
            /\ WatcherRecovery
            /\ ~SpawnFailed')
              => (/\ audio_proc' # None
                  /\ decs'[audio_proc'].start =
                         position_sec + (now - last_start_monotonic))]_vars

\* play_index(index) is rejected: the playlist is empty or index is outside
\* 0..len(playlist)-1
RejectedIndex(index) ==
    playlist = <<>> \/ index < 0 \/ index >= Len(playlist)

\* the record a call returns has the index, position, status and handles of
\* the current state
SameControlState(r) ==
    /\ r.current_index = current_index
    /\ r.position_sec = position_sec
    /\ r.status = status
    /\ r.encoder_proc = encoder_proc
    /\ r.audio_proc = audio_proc

\* no process runs in the record a call returns that does not run now
NoSpawnIn(r) ==
    /\ \A e \in DOMAIN encs : r.encs[e] = "run" => encs[e] = "run"
    /\ \A d \in DOMAIN decs : r.decs[d].st = "run" => decs[d].st = "run"

\* play() cannot start: the playlist is empty or there is no video file
CannotStart == playlist = <<>> \/ video_file = NoVideo

\* C24 as stated: a rejected play_index(i) leaves current_index,
\* position_sec, status and both handles unchanged; play() with an empty
\* playlist or no video file spawns no worker and ends with status = stopped,
\* whatever the status it is called in.
C24_RejectedStartAnyStatus ==
    /\ \A index \in (-1)..MaxLen :
          RejectedIndex(index) => SameControlState(play_index(Cur, index, now))
    /\ CannotStart =>
          LET r == play(Cur, now) IN r.status = "stopped" /\ NoSpawnIn(r)

\* C24, amended: a rejected play_index(i) leaves current_index, position_sec,
\* status and both handles unchanged; play() called while status is not
\* playing, with an empty playlist or no video file, spawns no worker and
\* ends with status = stopped.
C24_RejectedStart ==
    /\ \A index \in (-1)..MaxLen :
          RejectedIndex(index) => SameControlState(play_index(Cur, index, now))
    /\ (CannotStart /\ status # "playing") =>
          LET r == play(Cur, now) IN r.status = "stopped" /\ NoSpawnIn(r)

\* C24's case: paused with a video file and an empty playlist; play()
\* leaves the paused status for stopped.
C24_Witness ==
    /\ playlist = <<>> /\ video_file # NoVideo
    /\ status = "paused" /\ position_sec = 0
    /\ play(Cur, now).status = "stopped"

\* C25: when the ffmpeg executable is not found, play() called with a
\* playlist, a video file and an RTMP URL returns with status = stopped.
C25_SpawnFailureStops ==
    [][(/\ ffmpeg_path = "missing"
        /\ playlist # <<>> /\ video_file # NoVideo /\ rtmp_url # ""
        /\ status # "playing"
        /\ Play)
          => status' = "stopped"]_vars

\* the call that returned r raised an exception to its caller
Raises(r) == r.exc /\ ~r.ovf

\* C26: play, play_index, seek, skip_next and the setters return normally in
\* every state, whatever error process creation fails with.
C26_NoExceptionEscapes ==
    /\ ~Raises(play(Cur, now))
    /\ \A index \in (-1)..MaxLen : ~Raises(play_index(Cur, index, now))
    /\ \A seconds \in SeekArgsStart : ~Raises(seek(Cur, seconds, now))
    /\ ~Raises(skip_next(Cur, now))
    /\ \A path \in VideoArgs : ~Raises(set_video(Cur, path, now))
    /\ \A path \in FfmpegArgsAny : ~Raises(set_ffmpeg_path(Cur, path, now))

\* position_sec as get_state() reports it now
ReportedPosition == _get_position_unlocked(Cur, now)

\* position_sec as get_state() reports it after the step
ReportedPositionNext ==
    IF status' = "playing"
    THEN position_sec' + (now' - last_start_monotonic')
    ELSE position_sec'

\* a step inside one playing interval that restarts no worker: it is no
\* pause, seek or track advance, each of which replaces the decoder
SteadyPlaying ==
    /\ status = "playing" /\ status' = "playing"
    /\ audio_proc # None /\ audio_proc' = audio_proc
    /\ encoder_proc' = encoder_proc

\* C27: across a step inside a playing interval that is no pause, seek or
\* track advance, the reported position grows by exactly the time elapsed;
\* while status is not playing the reported position is the stored
\* position_sec.
C27_MonotonePosition ==
    /\ [](status # "playing" => ReportedPosition = position_sec)
    /\ [][SteadyPlaying =>
            ReportedPositionNext = ReportedPosition + (now' - now)]_vars

\* C28: every duration stored in track_durations is strictly positive.
C28_DurationsPositive ==
    \A spath \in DOMAIN track_durations : track_durations[spath] > 0

\* The handle of the video worker (Stream B).  The supervisor that app.py
\* imports has no such field; the refactored BaseState initialises it to None
\* and no pipeline operation calls VideoMixin._start_video_unlocked, the only
\* code that assigns a process to it.
video_proc == None

\* C29: play() with a playlist, a video file and an RTMP URL ends with
\* status = playing and the encoder, the video worker and the decoder all
\* alive.
C29_VideoWorkerStarted ==
    [][(/\ status # "playing"
        /\ playlist # <<>> /\ video_file # NoVideo /\ rtmp_url # ""
        /\ Play)
          => (/\ status' = "playing"
              /\ encoder_proc' # None /\ encs'[encoder_proc'] = "run"
              /\ video_proc # None
              /\ audio_proc' # None /\ decs'[audio_proc'].st = "run")]_vars

\* C30: while a client thread is inside a control operation it holds the
\* lock and the supervisor's fields are as the operation found them at its
\* first access (or as its own last step left them): no other call, nor the
\* watcher, nor a pump has changed them.
C30_CriticalSection ==
    \A c \in CallerIds :
        calls[c].pc \in InOperation =>
            /\ lock.owner = c
            /\ calls[c].seen = View(Cur)

\* C30's case: a client is inside pause() with a pump thread and the watcher
\* both about to enter a locked block, while the other client, which has
\* sent a request that saves the configuration, waits for the lock inside
\* save_config().
C30_Witness ==
    /\ calls["c1"].pc = "held" /\ calls["c1"].op = "pause"
    /\ calls["c2"].pc = "saving"
    /\ status = "playing"
    /\ watcher.pc = "recover"
    /\ BagIn(TopPump, pumps)

\* C31: when the watcher's recovery block clears or replaces a handle,
\* changes status or spawns a process, status is playing and the encoder
\* handle is the process the watcher polled.
C31_WatcherAtomic ==
    [][(/\ watcher.pc = "recover"
        /\ \/ encoder_proc' # encoder_proc
           \/ audio_proc' # audio_proc
           \/ status' # status
           \/ Spawned
        /\ WatcherRecovery)
          => (status = "playing" /\ encoder_proc = watcher.proc)]_vars

\* C32: a pump's advance step runs only in a state where status = playing
\* and _stop_audio_pump is not set.
C32_AdvanceOnlyWhilePlaying ==
    [][\A th \in BagToSet(pumps) :
          (/\ th.pc = "advance"
           /\ (status # "playing" \/ _stop_audio_pump)) => ~PumpAdvance(th)]_vars

\* C33: no two pump threads read the same decoder.
C33_OnePumpPerDecoder ==
    \A d \in DOMAIN decs :
        BagCardinality([th \in Readers(d) |-> pumps[th]]) <= 1

\* C34: a track advance (skip_next or a pump's advance) that runs while the
\* encoder the handle refers to has exited sets status = stopped and spawns
\* nothing.
C34_AdvanceWithDeadEncoder ==
    [][(/\ playlist # <<>>
        /\ encoder_proc # None /\ encs[encoder_proc] \in {"exit0", "exit1"}
        /\ (SkipNext \/ NaturalAdvance))
          => (status' = "stopped" /\ ~Spawned)]_vars

\* the processes that the step has started
StartedEncs == {e \in DOMAIN encs : encs[e] = "unborn" /\ encs'[e] # "unborn"}
\* a pump thread is started with every decoder that is spawned while an
\* encoder is held (475-480), and set_rtmp ends none
StartedPumps == BagCardinality(pumps') - BagCardinality(pumps)

\* C35: set_rtmp called while playing, where the pipeline can be started,
\* starts exactly one encoder and exactly one decoder.
C35_RestartOnce ==
    [][(status = "playing" /\ CanStart /\ SetRtmp)
          => (Cardinality(StartedEncs) = 1 /\ StartedPumps = 1)]_vars

\* the paths of a playlist
PathsOf(pl) == {pl[i] : i \in 1..Len(pl)}

\* C36: the keys of the duration map are paths of the playlist; a step that
\* changes the playlist or the map (load_playlist, set_playlist_order) keeps
\* the duration of every path that was in the map and is in the new
\* playlist, whatever a probe would give, and drops the others.
C36_DurationsFrame ==
    /\ [](DOMAIN track_durations \subseteq PathsOf(playlist))
    /\ [][(playlist' # playlist \/ track_durations' # track_durations)
            => /\ DOMAIN track_durations' \subseteq PathsOf(playlist')
               /\ \A spath \in DOMAIN track_durations :
                     spath \in PathsOf(playlist')
                         => /\ spath \in DOMAIN track_durations'
                            /\ track_durations'[spath] = track_durations[spath]]_vars

\* C36's case: while playing, both tracks of the playlist have a duration,
\* from probes that gave different values.
C36_Witness ==
    /\ playlist = <<"b.mp3", "a.mp3">>
    /\ DOMAIN track_durations = {"a.mp3", "b.mp3"}
    /\ track_durations["b.mp3"] = 1 /\ track_durations["a.mp3"] = 2
    /\ status = "playing"

\* C37: set_playlist_order leaves position_sec as it was.
C37_ReorderKeepsPosition ==
    [][position_sec' # position_sec => ~SetPlaylistOrderAnyProbed]_vars

\* a step of the watcher thread or of a pump thread
BackgroundStep ==
    \/ WatcherRead
    \/ WatcherPoll
    \/ WatcherRecovery
    \/ PumpsTop \/ PumpsRead \/ PumpsWrite \/ PumpsEof \/ PumpsAdvance

\* C38: while status is stopped or paused, no step of the watcher or of a
\* pump thread changes status or current_index or starts a process.
C38_StickyStop ==
    [][(/\ status \in {"stopped", "paused"}
        /\ (status' # status \/ current_index' # current_index \/ Spawned))
          => ~BackgroundStep]_vars

\* playback has stalled: status is playing with a playlist and the encoder
\* runs, the decoder the handle refers to has ended, and no pump thread is
\* left to start another one
Stalled ==
    /\ status = "playing" /\ playlist # <<>>
    /\ EncAlive(Cur, encoder_proc)
    /\ audio_proc # None /\ decs[audio_proc].st = "exited"
    /\ pumps = EmptyBag
    /\ watcher.pc = "read"

\* C39: playback never stalls silently.
C39_NoSilentStall == ~Stalled

\* C40: the pump of a decoder that was killed (replaced by a restart, a
\* jump or a pause) does not change current_index.
C40_KilledPumpKeepsIndex ==
    [][\A th \in BagToSet(pumps) :
          (/\ th.pc = "advance"
           /\ decs[th.dec].st = "killed"
           /\ PumpAdvance(th)) => current_index' = current_index]_vars

====
